---- MODULE Spec2Model ----
(***************************************************************************)
(* Model of the `init` command of the archer CLI                           *)
(* (internal/pkg/cli/init.go): the InitAppOpts request object, its phases  *)
(* Prepare, Ask, Validate and Execute (createProject, ws.Create,           *)
(* createApp, deployEnv), and the collaborators they call (project store,  *)
(* environment store, environment deployer, workspace, prompter, progress  *)
(* spinner).  Every collaborator call, method entry and method return is   *)
(* appended to `trace`, so orderings and return values are state.  The     *)
(* trace covers one run of the command, or one method invocation of the    *)
(* direct driver.                                                          *)
(***************************************************************************)
EXTENDS Naturals, Sequences, FiniteSets

VARIABLES
    Project,            \* opts.Project
    AppName,            \* opts.AppName
    AppType,            \* opts.AppType
    ShouldDeploy,       \* opts.ShouldDeploy
    ShouldSkipDeploy,   \* opts.ShouldSkipDeploy
    existingProjects,   \* opts.existingProjects (a nil slice is <<>>)
    env,                \* deployEnv's local `env` (<<>> before it is built)
    projects,           \* project store: names of the registered projects
    envs,               \* environment store: registered environments
    stacks,             \* deployer: environments whose stack exists
    wsProject,          \* workspace: the project it is bound to ("" = none)
    manifests,          \* workspace: manifests written
    trace,              \* history of entries, collaborator calls and returns
    pc,                 \* position in the running method
    top,                \* the method the driver invoked
    driver,             \* "cmd": the cobra command; "direct": method calls
    ncalls,             \* number of methods the direct driver has invoked
    start               \* history: the collaborators' state when the trace began

vars == <<Project, AppName, AppType, ShouldDeploy, ShouldSkipDeploy,
          existingProjects, env, projects, envs, stacks, wsProject,
          manifests, trace, pc, top, driver, ncalls, start>>

opts == <<Project, AppName, AppType, ShouldDeploy, ShouldSkipDeploy,
          existingProjects>>

world == <<projects, envs, stacks, wsProject, manifests>>

----------------------------------------------------------------------------
(* Bounds and value sets *)

\* number of methods the direct driver invokes on one request object
MaxCalls == 3

ProjectNames == {"acme", "beta"}

AppNames == {"api"}

\* a name that breaks the syntactic name rule
BadName == "Bad!"

defaultEnvironmentName == "test"

LoadBalancedWebApplication == "Load Balanced Web App"

----------------------------------------------------------------------------
(* Errors: an error is its chain, outermost first, of the texts of the     *)
(* wrapped errors; a text is a sequence of strings; nil is the empty chain. *)

Nil == <<>>

\* an error value of the type `kind`, wrapping nothing
Err(kind) == << <<kind>> >>

\* err.Error()
Text(err) == IF err = <<>> THEN <<"<nil>">> ELSE err[1]

\* fmt.Errorf("msg: %w", err): the text includes err's, and err is wrapped
Wrap(msg, err) == << <<msg>> \o Text(err) >> \o err

\* fmt.Errorf("msg: %v", err): the text includes err's, nothing is wrapped
Errorf(msg, err) == << <<msg>> \o Text(err) >>

\* errors.As(err, &target): some error of the chain has the target type
ErrorsAs(err, kind) == \E i \in DOMAIN err : err[i] = <<kind>>

errValueEmpty == Err("errValueEmpty")

errValueBadFormat == Err("errValueBadFormat")

ErrProjectAlreadyExists == "ErrProjectAlreadyExists"

ErrStackAlreadyExists == "ErrStackAlreadyExists"

validateProjectName(val) ==
    IF val = "" THEN errValueEmpty
    ELSE IF val = BadName THEN errValueBadFormat
    ELSE Nil

validateApplicationName(val) ==
    IF val = "" THEN errValueEmpty
    ELSE IF val = BadName THEN errValueBadFormat
    ELSE Nil

----------------------------------------------------------------------------
(* The trace *)

Call(op, arg, val, err) ==
    [kind |-> "call", op |-> op, arg |-> arg, val |-> val, err |-> err]

Enter(fn) ==
    [kind |-> "enter", op |-> fn, arg |-> <<>>, val |-> <<>>, err |-> Nil]

Ret(fn, err) ==
    [kind |-> "return", op |-> fn, arg |-> <<>>, val |-> <<>>, err |-> err]

----------------------------------------------------------------------------
(* Collaborators: the responses each call can give in the current world     *)

\* the orderings of a finite set
Orderings(S) ==
    {q \in [1..Cardinality(S) -> S] :
        \A i, j \in 1..Cardinality(S) : i # j => q[i] # q[j]}

\* ws.Summary(): the bound project, or a failure (always when unbound)
SummaryResponses ==
    (IF wsProject # "" THEN {[ProjectName |-> wsProject, err |-> Nil]} ELSE {})
        \cup {[ProjectName |-> "", err |-> Err("ErrSummary")]}

\* projStore.ListProjects(): the project names in some order, or a failure
ListProjectsResponses ==
    {[names |-> q, err |-> Nil] : q \in Orderings(projects)}
        \cup {[names |-> <<>>, err |-> Err("ErrListProjects")]}

\* the texts a user may type at a prompt
Typed == ProjectNames \cup AppNames \cup {"", BadName}

\* prompter.Get(..., validator): one of the texts the validator accepts, or a
\* failure
GetResponses(accepted) ==
    {[val |-> v, err |-> Nil] : v \in accepted}
        \cup {[val |-> "", err |-> Err("ErrPrompt")]}

\* prompter.SelectOne(..., options): one of the options, or a failure
SelectOneResponses(options) ==
    {[val |-> options[i], err |-> Nil] : i \in DOMAIN options}
        \cup {[val |-> "", err |-> Err("ErrPrompt")]}

\* prompter.Confirm(...): an answer, or a failure beside either boolean
ConfirmResponses ==
    {[val |-> b, err |-> e] : b \in BOOLEAN, e \in {Nil, Err("ErrPrompt")}}

\* envStore.ListEnvironments(project): the project's environments, or a failure
ListEnvironmentsResponses(project) ==
    {[envs |-> q, err |-> Nil] : q \in Orderings({e \in envs : e[1] = project})}
        \cup {[envs |-> <<>>, err |-> Err("ErrListEnvironments")]}

\* how a boolean is written in the trace
BoolStr(b) == IF b THEN "true" ELSE "false"

\* the manifest bytes of an application
ManifestBytes(name, type) == <<"manifest", name, type>>

----------------------------------------------------------------------------
(* Method return and the two drivers *)

Methods == {"Prepare", "Ask", "Validate", "Execute", "deployEnv"}

\* what runs after the method the driver invoked has returned err: the cobra
\* command runs Prepare and Ask in PersistentPreRunE and Execute in RunE, and
\* RunE only runs when PersistentPreRunE returned nil
AfterReturn(err) ==
    IF driver = "cmd"
    THEN CASE top = "Prepare" -> [pc |-> "Ask", top |-> "Ask", log |-> <<>>]
           [] top = "Ask" ->
                IF err = Nil
                THEN [pc |-> "Execute", top |-> "Execute",
                      log |-> <<Ret("PersistentPreRunE", err), Enter("RunE")>>]
                ELSE [pc |-> "exit", top |-> top,
                      log |-> <<Ret("PersistentPreRunE", err)>>]
           [] OTHER -> [pc |-> "exit", top |-> top, log |-> <<Ret("RunE", err)>>]
    ELSE [pc |-> "idle", top |-> top, log |-> <<>>]

\* method fn returns err after logging entries; a return of deployEnv inside
\* Execute is Execute's return value too (`return opts.deployEnv()`)
Finish(entries, fn, err) ==
    LET rets == IF fn = top THEN <<Ret(fn, err)>>
                ELSE <<Ret(fn, err), Ret(top, err)>>
        nxt == AfterReturn(err)
    IN  /\ trace' = trace \o entries \o rets \o nxt.log
        /\ pc' = nxt.pc
        /\ top' = nxt.top

\* the method continues at position p after logging entries
Goto(entries, p) ==
    /\ trace' = trace \o entries
    /\ pc' = p
    /\ top' = top

\* the direct driver invokes a method on the request object, as a unit test
\* does; the trace is that of the invocation, and `env` is a fresh local
Invoke ==
    /\ driver = "direct"
    /\ pc = "idle"
    /\ ncalls < MaxCalls
    /\ \E m \in Methods :
        /\ pc' = m
        /\ top' = m
    /\ ncalls' = ncalls + 1
    /\ trace' = <<>>
    /\ env' = <<>>
    /\ start' = world
    /\ UNCHANGED <<opts, world, driver>>

\* the cobra command: PersistentPreRunE builds the collaborators, then runs
\* Prepare and Ask
PersistentPreRunE ==
    /\ driver = "cmd"
    /\ pc = "PersistentPreRunE"
    /\ \E e \in {Nil, Err("ErrWorkspaceNew"), Err("ErrNewStore"), Err("ErrNewSession")} :
        IF e # Nil
        THEN /\ trace' = trace \o <<Enter("PersistentPreRunE"), Ret("PersistentPreRunE", e)>>
             /\ pc' = "exit"
             /\ top' = top
        ELSE /\ trace' = trace \o <<Enter("PersistentPreRunE")>>
             /\ pc' = "Prepare"
             /\ top' = "Prepare"
    /\ UNCHANGED <<opts, env, world, driver, ncalls, start>>

----------------------------------------------------------------------------
(* Prepare *)

\* Prepare without its early return
ProjectSupplied_never == FALSE

\* `if opts.Project != ""`
ProjectSupplied == Project # ""

\* Prepare not adopting the workspace's project
SummaryOk_never(err) == FALSE

\* `if summary, err := opts.ws.Summary(); err == nil`
SummaryOk(err) == err = Nil

Prepare ==
    /\ pc = "Prepare"
    /\ IF ProjectSupplied
       THEN /\ Finish(<<Enter("Prepare")>>, "Prepare", Nil)
            /\ UNCHANGED Project
       ELSE \E summary \in SummaryResponses :
            LET entries == <<Enter("Prepare"),
                             Call("Summary", <<>>, <<summary.ProjectName>>, summary.err)>>
            IN  IF SummaryOk(summary.err)
                THEN /\ Project' = summary.ProjectName
                     /\ Finish(entries, "Prepare", Nil)
                ELSE /\ Goto(entries, "ListProjects")
                     /\ UNCHANGED Project
    /\ UNCHANGED <<AppName, AppType, ShouldDeploy, ShouldSkipDeploy,
                   existingProjects, env, world, driver, ncalls, start>>

\* Prepare listing the projects without staging their names
Prepare_ListProjects_notStaged ==
    /\ pc = "ListProjects"
    /\ \E r \in ListProjectsResponses :
        Finish(<<Call("ListProjects", <<>>, r.names, r.err)>>, "Prepare", Nil)
    /\ UNCHANGED <<opts, env, world, driver, ncalls, start>>

Prepare_ListProjects ==
    /\ pc = "ListProjects"
    /\ \E r \in ListProjectsResponses :
        /\ existingProjects' = r.names
        /\ Finish(<<Call("ListProjects", <<>>, r.names, r.err)>>, "Prepare", Nil)
    /\ UNCHANGED <<Project, AppName, AppType, ShouldDeploy, ShouldSkipDeploy,
                   env, world, driver, ncalls, start>>

----------------------------------------------------------------------------
(* Ask *)

\* projectQuestion and the `if opts.Project == ""` around it
Ask_Project ==
    /\ pc = "Ask"
    /\ IF Project = ""
       THEN IF Len(existingProjects) > 0
            THEN \E r \in SelectOneResponses(existingProjects) :
                 LET entries == <<Enter("Ask"),
                                  Call("SelectOne", <<"Which project should we use?">> \o existingProjects,
                                       <<r.val>>, r.err)>>
                 IN  IF r.err # Nil
                     THEN /\ Finish(entries, "Ask", Wrap("failed to get project selection", r.err))
                          /\ UNCHANGED Project
                     ELSE /\ Project' = r.val
                          /\ Goto(entries, "Ask_AppName")
            ELSE \E r \in GetResponses({v \in Typed : validateProjectName(v) = Nil}) :
                 LET entries == <<Enter("Ask"),
                                  Call("Get", <<"What is your project's name?">>, <<r.val>>, r.err)>>
                 IN  IF r.err # Nil
                     THEN /\ Finish(entries, "Ask", Wrap("failed to get project name", r.err))
                          /\ UNCHANGED Project
                     ELSE /\ Project' = r.val
                          /\ Goto(entries, "Ask_AppName")
       ELSE /\ Goto(<<Enter("Ask")>>, "Ask_AppName")
            /\ UNCHANGED Project
    /\ UNCHANGED <<AppName, AppType, ShouldDeploy, ShouldSkipDeploy,
                   existingProjects, env, world, driver, ncalls, start>>

\* Ask going on to the next prompt after a failed one
Ask_AppName_ignoreError ==
    /\ pc = "Ask_AppName"
    /\ IF AppName = ""
       THEN \E r \in GetResponses({v \in Typed : validateApplicationName(v) = Nil}) :
            /\ AppName' = r.val
            /\ Goto(<<Call("Get", <<"What is your application's name?">>, <<r.val>>, r.err)>>,
                    "Ask_AppType")
       ELSE /\ Goto(<<>>, "Ask_AppType")
            /\ UNCHANGED AppName
    /\ UNCHANGED <<Project, AppType, ShouldDeploy, ShouldSkipDeploy,
                   existingProjects, env, world, driver, ncalls, start>>

Ask_AppName ==
    /\ pc = "Ask_AppName"
    /\ IF AppName = ""
       THEN \E r \in GetResponses({v \in Typed : validateApplicationName(v) = Nil}) :
            LET entries == <<Call("Get", <<"What is your application's name?">>, <<r.val>>, r.err)>>
            IN  IF r.err # Nil
                THEN /\ Finish(entries, "Ask", Wrap("failed to get application name", r.err))
                     /\ UNCHANGED AppName
                ELSE /\ AppName' = r.val
                     /\ Goto(entries, "Ask_AppType")
       ELSE /\ Goto(<<>>, "Ask_AppType")
            /\ UNCHANGED AppName
    /\ UNCHANGED <<Project, AppType, ShouldDeploy, ShouldSkipDeploy,
                   existingProjects, env, world, driver, ncalls, start>>

\* Ask writing the manifest once the last field is known
Ask_AppType_writesManifest ==
    /\ pc = "Ask_AppType"
    /\ AppType' = LoadBalancedWebApplication
    /\ manifests' = manifests \cup {<<AppName, ManifestBytes(AppName, LoadBalancedWebApplication)>>}
    /\ Finish(<<Call("WriteManifest",
                     ManifestBytes(AppName, LoadBalancedWebApplication) \o <<AppName>>, <<>>, Nil)>>,
              "Ask", Nil)
    /\ UNCHANGED <<Project, AppName, ShouldDeploy, ShouldSkipDeploy, existingProjects,
                   env, projects, envs, stacks, wsProject, driver, ncalls, start>>

Ask_AppType ==
    /\ pc = "Ask_AppType"
    /\ IF AppType = ""
       THEN \E r \in SelectOneResponses(<<LoadBalancedWebApplication>>) :
            LET entries == <<Call("SelectOne",
                                  <<"Which template would you like to use?", LoadBalancedWebApplication>>,
                                  <<r.val>>, r.err)>>
            IN  IF r.err # Nil
                THEN /\ Finish(entries, "Ask", Wrap("failed to get template selection", r.err))
                     /\ UNCHANGED AppType
                ELSE /\ AppType' = r.val
                     /\ Finish(entries, "Ask", Nil)
       ELSE /\ Finish(<<>>, "Ask", Nil)
            /\ UNCHANGED AppType
    /\ UNCHANGED <<Project, AppName, ShouldDeploy, ShouldSkipDeploy,
                   existingProjects, env, world, driver, ncalls, start>>

----------------------------------------------------------------------------
(* Validate *)

\* Validate reporting an empty name like any other violation
ValidateResult_rejectEmpty ==
    LET perr == validateProjectName(Project)
        aerr == validateApplicationName(AppName)
    IN  IF perr # Nil
        THEN Errorf("project name invalid", perr)
        ELSE IF aerr # Nil
        THEN Errorf("application name invalid", aerr)
        ELSE Nil

\* the value Validate returns
ValidateResult ==
    LET perr == validateProjectName(Project)
        aerr == validateApplicationName(AppName)
    IN  IF perr # Nil /\ perr # errValueEmpty
        THEN Errorf("project name invalid", perr)
        ELSE IF aerr # Nil /\ aerr # errValueEmpty
        THEN Errorf("application name invalid", aerr)
        ELSE Nil

Validate ==
    /\ pc = "Validate"
    /\ Finish(<<Enter("Validate")>>, "Validate", ValidateResult)
    /\ UNCHANGED <<opts, env, world, driver, ncalls, start>>

----------------------------------------------------------------------------
(* Execute *)

Execute ==
    /\ pc = "Execute"
    /\ LET err == validateProjectName(Project)
       IN  IF err # Nil
           THEN Finish(<<Enter("Execute")>>, "Execute", err)
           ELSE Goto(<<Enter("Execute")>>, "createProject")
    /\ UNCHANGED <<opts, env, world, driver, ncalls, start>>

\* createProject without the "already exists" absorption
createProject_propagate(err) == err

\* the value createProject returns when projStore.CreateProject returned err
createProject(err) ==
    IF ~ErrorsAs(err, ErrProjectAlreadyExists) THEN err ELSE Nil

\* projStore.CreateProject(name): a failure, "already exists", or the project
\* is registered
CreateProjectOutcomes(name) ==
    {[err |-> Err("ErrCreateProject"), projects |-> projects]}
        \cup (IF name \in projects
              THEN {[err |-> Err(ErrProjectAlreadyExists), projects |-> projects]}
              ELSE {[err |-> Nil, projects |-> projects \cup {name}]})

Execute_createProject ==
    /\ pc = "createProject"
    /\ \E r \in CreateProjectOutcomes(Project) :
        LET ret == createProject(r.err)
            entries == <<Enter("createProject"),
                         Call("CreateProject", <<Project>>, <<>>, r.err),
                         Ret("createProject", ret)>>
        IN  /\ projects' = r.projects
            /\ IF ret # Nil
               THEN Finish(entries, "Execute", ret)
               ELSE Goto(entries, "ws.Create")
    /\ UNCHANGED <<opts, env, envs, stacks, wsProject, manifests, driver, ncalls, start>>

\* Execute going on to createApp after a failed ws.Create
Execute_wsCreate_ignoreError ==
    /\ pc = "ws.Create"
    /\ \E err \in {Nil, Err("ErrWorkspaceCreate")} :
        /\ wsProject' = IF err = Nil THEN Project ELSE wsProject
        /\ Goto(<<Call("ws.Create", <<Project>>, <<>>, err)>>, "createApp")
    /\ UNCHANGED <<opts, env, projects, envs, stacks, manifests, driver, ncalls, start>>

\* `opts.ws.Create(opts.Project)`
Execute_wsCreate ==
    /\ pc = "ws.Create"
    /\ \E err \in {Nil, Err("ErrWorkspaceCreate")} :
        LET entries == <<Call("ws.Create", <<Project>>, <<>>, err)>>
        IN  IF err # Nil
            THEN /\ Finish(entries, "Execute", err)
                 /\ UNCHANGED wsProject
            ELSE /\ wsProject' = Project
                 /\ Goto(entries, "createApp")
    /\ UNCHANGED <<opts, env, projects, envs, stacks, manifests, driver, ncalls, start>>

\* createApp and the `if err := opts.createApp()` around it
Execute_createApp ==
    /\ pc = "createApp"
    /\ \E merr \in {Nil, Err("ErrManifestCreate")},
          serr \in {Nil, Err("ErrManifestMarshal")},
          werr \in {Nil, Err("ErrWriteManifest")} :
        LET create == Call("manifest.Create", <<AppName, AppType>>, <<>>, merr)
            marshal == Call("manifest.Marshal", <<>>, ManifestBytes(AppName, AppType), serr)
            write == Call("WriteManifest", ManifestBytes(AppName, AppType) \o <<AppName>>, <<>>, werr)
        IN  IF merr # Nil
            THEN /\ serr = Nil /\ werr = Nil
                 /\ LET ret == Wrap("failed to generate a manifest", merr)
                    IN  Finish(<<Enter("createApp"), create, Ret("createApp", ret)>>, "Execute", ret)
                 /\ UNCHANGED manifests
            ELSE IF serr # Nil
            THEN /\ werr = Nil
                 /\ LET ret == Wrap("failed to marshal the manifest file", serr)
                    IN  Finish(<<Enter("createApp"), create, marshal, Ret("createApp", ret)>>, "Execute", ret)
                 /\ UNCHANGED manifests
            ELSE IF werr # Nil
            THEN /\ Finish(<<Enter("createApp"), create, marshal, write, Ret("createApp", werr)>>,
                           "Execute", werr)
                 /\ UNCHANGED manifests
            ELSE /\ manifests' = manifests \cup {<<AppName, ManifestBytes(AppName, AppType)>>}
                 /\ Goto(<<Enter("createApp"), create, marshal, write, Ret("createApp", Nil)>>,
                         "deployEnv")
    /\ UNCHANGED <<opts, env, projects, envs, stacks, wsProject, driver, ncalls, start>>

----------------------------------------------------------------------------
(* deployEnv *)

\* skip-deploy giving way to force-deploy
SkipDeploy_unlessForced == ShouldSkipDeploy /\ ~ShouldDeploy

\* `if opts.ShouldSkipDeploy`
SkipDeploy == ShouldSkipDeploy

\* an off-by-one in the existing-environments test
HasExistingEnvs_moreThanOne(existingEnvs) == Len(existingEnvs) > 1

\* `if len(existingEnvs) > 0`
HasExistingEnvs(existingEnvs) == Len(existingEnvs) > 0

\* deployEnv deploying whatever the answer
Declined_never(answer, err) == FALSE

\* `if !deployEnv` (the error Confirm returned is not looked at)
Declined(answer, err) == ~answer

\* the environment deployEnv builds
NewEnvironment_private == <<Project, defaultEnvironmentName, BoolStr(FALSE)>>

NewEnvironment == <<Project, defaultEnvironmentName, BoolStr(TRUE)>>

\* the names of a list of environments
EnvNames(list) == [i \in DOMAIN list |-> list[i][2]]

deployEnv ==
    /\ pc = "deployEnv"
    /\ IF SkipDeploy
       THEN Finish(<<Enter("deployEnv")>>, "deployEnv", Nil)
       ELSE \E r \in ListEnvironmentsResponses(Project) :
            LET entries == <<Enter("deployEnv"),
                             Call("ListEnvironments", <<Project>>, EnvNames(r.envs), r.err)>>
            IN  IF HasExistingEnvs(r.envs)
                THEN Finish(entries, "deployEnv", Nil)
                ELSE Goto(entries, "Confirm")
    /\ UNCHANGED <<opts, env, world, driver, ncalls, start>>

deployEnv_Confirm ==
    /\ pc = "Confirm"
    /\ \E r \in ConfirmResponses :
        LET entries == <<Call("Confirm", <<"Would you like to set up a test environment?">>,
                              <<BoolStr(r.val)>>, r.err)>>
        IN  IF Declined(r.val, r.err)
            THEN /\ Finish(entries, "deployEnv", Nil)
                 /\ UNCHANGED env
            ELSE /\ env' = NewEnvironment
                 /\ Goto(entries, "DeployEnvironment")
    /\ UNCHANGED <<opts, world, driver, ncalls, start>>

\* envDeployer.DeployEnvironment(e): a failure, "stack already exists", or the
\* stack's creation begins
DeployEnvironmentOutcomes(e) ==
    {[err |-> Err("ErrDeployEnvironment"), stacks |-> stacks]}
        \cup (IF e \in stacks
              THEN {[err |-> Err(ErrStackAlreadyExists), stacks |-> stacks]}
              ELSE {[err |-> Nil, stacks |-> stacks \cup {e}]})

\* deployEnv returning the "stack already exists" error like any other
DeployFailure_propagate(err) == err

\* deployEnv absorbing every begin-deploy failure
DeployFailure_swallow(err) == Nil

\* what deployEnv returns when DeployEnvironment failed with err
DeployFailure(err) ==
    IF ErrorsAs(err, ErrStackAlreadyExists) THEN Nil ELSE err

Start(label) == Call("prog.Start", <<label>>, <<>>, Nil)

Stop(label) == Call("prog.Stop", <<label>>, <<>>, Nil)

deployEnv_DeployEnvironment ==
    /\ pc = "DeployEnvironment"
    /\ \E r \in DeployEnvironmentOutcomes(env) :
        LET call == Call("DeployEnvironment", env, <<>>, r.err)
        IN  /\ stacks' = r.stacks
            /\ IF r.err # Nil
               THEN IF ErrorsAs(r.err, ErrStackAlreadyExists)
                    THEN Finish(<<Start("Preparing deployment..."), call, Stop("Done!")>>,
                                "deployEnv", DeployFailure(r.err))
                    ELSE Finish(<<Start("Preparing deployment..."), call, Stop("Error!")>>,
                                "deployEnv", DeployFailure(r.err))
               ELSE Goto(<<Start("Preparing deployment..."), call, Stop("Done!"),
                           Start("Deploying env...")>>, "WaitForEnvironmentCreation")
    /\ UNCHANGED <<opts, env, projects, envs, wsProject, manifests, driver, ncalls, start>>

\* deployEnv going on to register the environment after a failed wait
deployEnv_WaitForEnvironmentCreation_ignoreError ==
    /\ pc = "WaitForEnvironmentCreation"
    /\ \E err \in {Nil, Err("ErrWaitForEnvironmentCreation")} :
        Goto(<<Call("WaitForEnvironmentCreation", env, <<>>, err)>>, "CreateEnvironment")
    /\ UNCHANGED <<opts, env, world, driver, ncalls, start>>

deployEnv_WaitForEnvironmentCreation ==
    /\ pc = "WaitForEnvironmentCreation"
    /\ \E err \in {Nil, Err("ErrWaitForEnvironmentCreation")} :
        LET call == Call("WaitForEnvironmentCreation", env, <<>>, err)
        IN  IF err # Nil
            THEN Finish(<<call, Stop("Error!")>>, "deployEnv", err)
            ELSE Goto(<<call>>, "CreateEnvironment")
    /\ UNCHANGED <<opts, env, world, driver, ncalls, start>>

\* deployEnv returning a CreateEnvironment failure with the indicator running
deployEnv_CreateEnvironment_noStopOnError ==
    /\ pc = "CreateEnvironment"
    /\ \E err \in {Nil, Err("ErrCreateEnvironment")} :
        LET call == Call("CreateEnvironment", env, <<>>, err)
        IN  IF err # Nil
            THEN /\ Finish(<<call>>, "deployEnv", err)
                 /\ UNCHANGED envs
            ELSE /\ envs' = envs \cup {env}
                 /\ Finish(<<call, Stop("Done!")>>, "deployEnv", Nil)
    /\ UNCHANGED <<opts, env, projects, stacks, wsProject, manifests, driver, ncalls, start>>

deployEnv_CreateEnvironment ==
    /\ pc = "CreateEnvironment"
    /\ \E err \in {Nil, Err("ErrCreateEnvironment")} :
        LET call == Call("CreateEnvironment", env, <<>>, err)
        IN  IF err # Nil
            THEN /\ Finish(<<call, Stop("Error!")>>, "deployEnv", err)
                 /\ UNCHANGED envs
            ELSE /\ envs' = envs \cup {env}
                 /\ Finish(<<call, Stop("Done!")>>, "deployEnv", Nil)
    /\ UNCHANGED <<opts, env, projects, stacks, wsProject, manifests, driver, ncalls, start>>

----------------------------------------------------------------------------
(* The specification *)

\* an environment some earlier run may have left for project "acme"
AcmeTest == <<"acme", defaultEnvironmentName, BoolStr(TRUE)>>

Init ==
    /\ Project \in {"", "acme", BadName}
    /\ AppName \in {"", "api", BadName}
    /\ AppType \in {"", LoadBalancedWebApplication}
    /\ ShouldDeploy \in BOOLEAN
    /\ ShouldSkipDeploy \in BOOLEAN
    /\ existingProjects = <<>>
    /\ env = <<>>
    /\ projects \in {{}, {"acme"}, {"acme", "beta"}}
    /\ stacks \in {{}, {AcmeTest}}
    /\ envs \in {{}, {AcmeTest}}
    /\ wsProject \in {"", "acme"}
    /\ envs \subseteq stacks
    /\ \A e \in stacks : e[1] \in projects
    /\ wsProject # "" => wsProject \in projects
    /\ manifests = {}
    /\ trace = <<>>
    /\ driver \in {"cmd", "direct"}
    /\ pc = IF driver = "cmd" THEN "PersistentPreRunE" ELSE "idle"
    /\ top = "none"
    /\ ncalls = 0
    /\ start = world

Next ==
    \/ Invoke
    \/ PersistentPreRunE
    \/ Prepare
    \/ Prepare_ListProjects
    \/ Ask_Project
    \/ Ask_AppName
    \/ Ask_AppType
    \/ Validate
    \/ Execute
    \/ Execute_createProject
    \/ Execute_wsCreate
    \/ Execute_createApp
    \/ deployEnv
    \/ deployEnv_Confirm
    \/ deployEnv_DeployEnvironment
    \/ deployEnv_WaitForEnvironmentCreation
    \/ deployEnv_CreateEnvironment

Spec == Init /\ [][Next]_vars

----------------------------------------------------------------------------
(* Reading the trace *)

\* the registries and the workspace binding when the trace began
StartProjects == start[1]

StartEnvs == start[2]

StartWsProject == start[4]

IsCall(e, ops) == e.kind = "call" /\ e.op \in ops

\* the positions of the calls of the operations ops
CallsOf(ops) == {i \in DOMAIN trace : IsCall(trace[i], ops)}

\* the positions where method fn returns
ReturnsOf(fn) == {i \in DOMAIN trace : trace[i].kind = "return" /\ trace[i].op = fn}

\* the positions where method fn is entered
EntriesOf(fn) == {i \in DOMAIN trace : trace[i].kind = "enter" /\ trace[i].op = fn}

\* method fn has returned err somewhere after position i
ReturnedAfter(i, fn, err) == \E j \in ReturnsOf(fn) : j > i /\ trace[j].err = err

\* the callers that receive a return value of deployEnv
DeployEnvCallers ==
    {"deployEnv"} \cup (IF top = "Execute" THEN {"Execute"} ELSE {})
        \cup (IF driver = "cmd" THEN {"RunE"} ELSE {})

\* the deployer and environment-registry calls of the trace, in order
DeployOps == {"DeployEnvironment", "WaitForEnvironmentCreation", "CreateEnvironment"}

DeployCalls == SelectSeq(trace, LAMBDA e : IsCall(e, DeployOps))

DeployOrder == <<"DeployEnvironment", "WaitForEnvironmentCreation", "CreateEnvironment">>

----------------------------------------------------------------------------
(* Claims *)

C2_StackAlreadyExistsIsSuccess ==
    \A i \in CallsOf({"DeployEnvironment"}) :
        trace[i].err = Err(ErrStackAlreadyExists)
            => /\ \A fn \in DeployEnvCallers : ReturnedAfter(i, fn, Nil)
               /\ CallsOf({"WaitForEnvironmentCreation", "CreateEnvironment"}) = {}

\* C2 witness: begin-deploy failed with "stack already exists" and deployEnv
\* has returned.
C2_Witness ==
    /\ \E i \in CallsOf({"DeployEnvironment"}) : trace[i].err = Err(ErrStackAlreadyExists)
    /\ ReturnsOf("deployEnv") # {}

\* the calls deployEnv makes after it has listed the environments
AfterListingOps == {"Confirm", "prog.Start", "prog.Stop"} \cup DeployOps

\* C3 as stated: whenever the project has an environment registered when
\* deployEnv runs, deployEnv returns nil without calling the prompter, the
\* deployer or CreateEnvironment.
C3_AsStated ==
    \A i \in EntriesOf("deployEnv") :
        (\E e \in StartEnvs : e[1] = Project)
            => /\ \A fn \in DeployEnvCallers : ReturnedAfter(i, fn, Nil)
               /\ CallsOf(AfterListingOps) = {}

\* C3 amended: whenever ListEnvironments returns at least one environment,
\* deployEnv returns nil without calling the prompter, the progress reporter,
\* the deployer or CreateEnvironment, whatever ShouldDeploy is, and registers
\* no environment.
C3_ListedEnvsShortCircuit ==
    \A i \in CallsOf({"ListEnvironments"}) :
        Len(trace[i].val) > 0
            => /\ \A fn \in DeployEnvCallers : ReturnedAfter(i, fn, Nil)
               /\ CallsOf(AfterListingOps) = {}
               /\ envs = StartEnvs

\* C3 witness: with force-deploy set, the listing returned an environment and
\* deployEnv has returned.
C3_Witness ==
    /\ ShouldDeploy
    /\ \E i \in CallsOf({"ListEnvironments"}) : Len(trace[i].val) > 0
    /\ ReturnsOf("deployEnv") # {}

\* C4: with ShouldSkipDeploy set, deployEnv returns nil at once: no
\* collaborator call follows its entry, whatever environments exist and
\* whether or not ShouldDeploy is set too.
C4_SkipDeployNoCalls ==
    \A i \in EntriesOf("deployEnv") :
        ShouldSkipDeploy
            => /\ i + 1 \in DOMAIN trace
               /\ trace[i + 1] = Ret("deployEnv", Nil)
               /\ \A fn \in DeployEnvCallers : ReturnedAfter(i, fn, Nil)
               /\ \A j \in DOMAIN trace : j > i => trace[j].kind # "call"

\* C4 witness: both flags set, an environment registered, deployEnv returned.
C4_Witness ==
    /\ ShouldSkipDeploy
    /\ ShouldDeploy
    /\ \E e \in StartEnvs : e[1] = Project
    /\ ReturnsOf("deployEnv") # {}

\* C5: createProject returns nil when CreateProject succeeded or failed with
\* "project already exists", and the underlying error otherwise; Execute goes
\* on to ws.Create in the first two cases and returns the error in the last.
C5_CreateProjectAbsorbsAlreadyExists ==
    \A i \in CallsOf({"CreateProject"}) :
        LET e == trace[i].err
            expected == IF e = Nil \/ e = Err(ErrProjectAlreadyExists) THEN Nil ELSE e
        IN  /\ i + 1 \in DOMAIN trace
            /\ trace[i + 1] = Ret("createProject", expected)
            /\ expected = Nil
                  => \/ pc = "ws.Create"
                     \/ \E j \in CallsOf({"ws.Create"}) : j > i
            /\ expected # Nil
                  => /\ ReturnedAfter(i, "Execute", e)
                     /\ CallsOf({"ws.Create"}) = {}

\* C5 witness: the project already existed and Execute went on to ws.Create.
C5_Witness ==
    \E i \in CallsOf({"CreateProject"}) :
        /\ trace[i].err = Err(ErrProjectAlreadyExists)
        /\ \E j \in CallsOf({"ws.Create"}) : j > i

\* the root cause of an error
Root(err) == err[Len(err)]

\* err is cause, as it is or wrapped
Carries(err, cause) == err # Nil /\ cause # Nil /\ Root(err) = Root(cause)

\* the callers that receive the error of a failed call of op
Receivers(op) ==
    {top} \cup (IF op \in DeployOps THEN {"deployEnv"} ELSE {})
          \cup (IF driver = "cmd"
                THEN {IF top \in {"Prepare", "Ask"} THEN "PersistentPreRunE" ELSE "RunE"}
                ELSE {})

\* the call at position i failed, its error was returned (alone or wrapped) to
\* every caller, and no collaborator but the progress reporter was called since
IsFatal(i) ==
    /\ \A fn \in Receivers(trace[i].op) :
          \E j \in ReturnsOf(fn) :
              /\ j > i
              /\ Carries(trace[j].err, trace[i].err)
    /\ \A j \in DOMAIN trace :
          (j > i /\ trace[j].kind = "call") => trace[j].op = "prog.Stop"

Tolerated == {Err(ErrProjectAlreadyExists), Err(ErrStackAlreadyExists)}

\* the calls whose error the code does not look at
UncheckedOps == {"Summary", "ListProjects", "ListEnvironments", "Confirm"}

\* C6 as stated: every error a collaborator call returns, other than "project
\* already exists" and "stack already exists", is fatal to the invocation and
\* is propagated to the caller.
C6_AsStated ==
    \A i \in DOMAIN trace :
        (trace[i].kind = "call" /\ trace[i].err # Nil /\ trace[i].err \notin Tolerated)
            => IsFatal(i)

\* C6 amended: the errors of ws.Summary, ListProjects, ListEnvironments and
\* Confirm are not looked at; of every other call, every error other than
\* "project already exists" and "stack already exists" is fatal to the
\* invocation and is propagated (as is, or wrapped by Ask and createApp) to
\* the caller, while those two are not returned.
C6_CheckedErrorsAreFatal ==
    \A i \in DOMAIN trace :
        (trace[i].kind = "call" /\ trace[i].err # Nil /\ trace[i].op \notin UncheckedOps)
            => IF trace[i].err \in Tolerated
               THEN \A fn \in Receivers(trace[i].op) : \A j \in ReturnsOf(fn) :
                        j > i => ~Carries(trace[j].err, trace[i].err)
               ELSE IsFatal(i)

\* C6 witness: in a run of the command, begin-deploy failed with an error
\* other than "stack already exists" and the command returned it.
C6_Witness ==
    /\ driver = "cmd"
    /\ \E i \in CallsOf({"DeployEnvironment"}) :
        /\ trace[i].err = Err("ErrDeployEnvironment")
        /\ ReturnedAfter(i, "RunE", trace[i].err)

\* the entries the step has added to the trace
Added(j) == j \in DOMAIN trace' /\ j > Len(trace)

\* C7: a Prepare invoked with a non-empty project leaves every request field
\* (the staged existing-projects list too) and every collaborator unchanged,
\* makes no collaborator call and returns.
C7_PrepareKeepsSuppliedProject ==
    [][(pc = "Prepare" /\ Project # "")
          => /\ UNCHANGED <<opts, world>>
             /\ trace' = trace \o <<Enter("Prepare"), Ret("Prepare", Nil)>>]_vars

\* C7 witness: Prepare has returned without a call, with a project set and a
\* non-empty list staged by an earlier Prepare.
C7_Witness ==
    /\ Project # ""
    /\ existingProjects # <<>>
    /\ trace = <<Enter("Prepare"), Ret("Prepare", Nil)>>

\* C8: a Prepare invoked with no project, whose ws.Summary succeeds with
\* project P, sets Project to P, leaves the staged list as it was, does not
\* call ListProjects and returns.
C8_PrepareAdoptsWorkspaceProject ==
    [][\A j \in DOMAIN trace' :
          (pc = "Prepare" /\ Project = "" /\ Added(j)
              /\ IsCall(trace'[j], {"Summary"}) /\ trace'[j].err = Nil)
          => /\ Project' = trace'[j].val[1]
             /\ existingProjects' = existingProjects
             /\ \A k \in DOMAIN trace' : Added(k) => ~IsCall(trace'[k], {"ListProjects"})
             /\ pc' # "ListProjects"
             /\ trace'[Len(trace')] = Ret("Prepare", Nil)]_vars

\* C8 witness: Prepare has returned after a successful ws.Summary, with the
\* workspace's project adopted and nothing staged.
C8_Witness ==
    /\ \E i \in CallsOf({"Summary"}) :
        /\ trace[i].err = Nil
        /\ Project = trace[i].val[1]
    /\ existingProjects = <<>>
    /\ ReturnsOf("Prepare") # {}

\* scenario A: a run of the command that started from an empty project
\* registry and an unbound workspace and has ended; no collaborator call
\* failed (but ws.Summary, which fails on an unbound workspace); the
\* application name is valid and the type the supported one; and the user
\* answered no to the deploy prompt
ScenarioA ==
    /\ driver = "cmd"
    /\ pc = "exit"
    /\ StartProjects = {}
    /\ StartWsProject = ""
    /\ EntriesOf("Prepare") # {}
    /\ \A i \in DOMAIN trace :
          (trace[i].kind = "call" /\ trace[i].op # "Summary") => trace[i].err = Nil
    /\ validateProjectName(Project) = Nil
    /\ validateApplicationName(AppName) = Nil
    /\ AppType = LoadBalancedWebApplication
    /\ \E i \in CallsOf({"Confirm"}) : trace[i].val = <<"false">>

\* C9: in scenario A, Prepare, Ask and Execute (and so the command) succeed,
\* CreateProject is called exactly once and WriteManifest exactly once, and
\* neither the deployer nor CreateEnvironment is called: one project, one
\* manifest and no environment exist at the end.
C9_ScenarioADeclined ==
    ScenarioA
        => /\ \A fn \in {"Prepare", "Ask", "PersistentPreRunE", "Execute", "RunE"} :
                /\ ReturnsOf(fn) # {}
                /\ \A j \in ReturnsOf(fn) : trace[j].err = Nil
           /\ Cardinality(CallsOf({"CreateProject"})) = 1
           /\ Cardinality(CallsOf({"WriteManifest"})) = 1
           /\ CallsOf(DeployOps) = {}
           /\ projects = {Project}
           /\ manifests = {<<AppName, ManifestBytes(AppName, AppType)>>}
           /\ envs = {}
           /\ stacks = {}

\* C9 witness: scenario A has run to its end, with the project typed at the
\* prompt.
C9_Witness ==
    /\ ScenarioA
    /\ \E i \in CallsOf({"Get"}) : trace[i].val = <<Project>>

\* C10: in a run of the command, Execute is entered only after Prepare, Ask
\* and Validate have run in that order and have all returned nil.
C10_ValidateBeforeExecute ==
    (driver = "cmd" /\ EntriesOf("Execute") # {})
        => \E p \in ReturnsOf("Prepare"), a \in ReturnsOf("Ask"),
              v \in ReturnsOf("Validate"), x \in EntriesOf("Execute") :
                /\ p < a /\ a < v /\ v < x
                /\ trace[p].err = Nil /\ trace[a].err = Nil /\ trace[v].err = Nil

\* the step of Execute a collaborator call belongs to (0: none of them)
StepOf(op) ==
    CASE op = "CreateProject" -> 1
      [] op = "ws.Create" -> 2
      [] op \in {"manifest.Create", "manifest.Marshal", "WriteManifest"} -> 3
      [] op \in {"ListEnvironments"} \cup AfterListingOps -> 4
      [] OTHER -> 0

\* the entry that ends a step of Execute, with the error the step returned
IsStepEnd(e) ==
    \/ e.kind = "return" /\ e.op \in {"createProject", "createApp", "deployEnv"}
    \/ IsCall(e, {"ws.Create"})

StepEndOrder == <<"createProject", "ws.Create", "createApp", "deployEnv">>

\* the steps of the trace that have ended, in order
StepEnds == SelectSeq(trace, IsStepEnd)

\* the calls of the trace that belong to a step of Execute, in order
IsStepCall(e) == e.kind = "call" /\ StepOf(e.op) >= 1

StepCalls == SelectSeq(trace, IsStepCall)

\* C11: Execute runs createProject, ws.Create, createApp, deployEnv in that
\* order; a step that returns an error is the last one, Execute returns that
\* error and no collaborator of a later step is called; what the completed
\* steps did stays done (nothing is removed from the registries, the
\* workspace stays bound, the manifest stays written); with an empty project
\* name Execute returns an error before any collaborator call.
C11_ExecuteSequentialNoRollback ==
    top = "Execute" =>
        /\ \A k \in DOMAIN StepEnds :
            /\ k <= 4
            /\ StepEnds[k].op = StepEndOrder[k]
            /\ StepEnds[k].err # Nil
                  => /\ k = Len(StepEnds)
                     /\ \E j \in ReturnsOf("Execute") : trace[j].err = StepEnds[k].err
                     /\ \A i \in DOMAIN trace :
                            trace[i].kind = "call" => StepOf(trace[i].op) <= k
        /\ \A k \in DOMAIN StepCalls :
              k > 1 => StepOf(StepCalls[k - 1].op) <= StepOf(StepCalls[k].op)
        /\ \A x \in EntriesOf("Execute"), i \in DOMAIN trace :
              (x < i /\ trace[i].kind = "call") => StepOf(trace[i].op) >= 1
        /\ \A j \in ReturnsOf("Execute") :
              trace[j].err = Nil => Len(StepEnds) = 4
        /\ \A i \in CallsOf({"CreateProject"}) : trace[i].err = Nil => Project \in projects
        /\ \A i \in CallsOf({"ws.Create"}) : trace[i].err = Nil => wsProject = Project
        /\ \A i \in CallsOf({"WriteManifest"}) :
              trace[i].err = Nil
                  => <<AppName, ManifestBytes(AppName, AppType)>> \in manifests
        /\ StartProjects \subseteq projects
        /\ StartEnvs \subseteq envs
        /\ start[3] \subseteq stacks
        /\ start[5] \subseteq manifests
        /\ \A x \in EntriesOf("Execute") :
              Project = ""
                  => /\ \E j \in ReturnsOf("Execute") : trace[j].err # Nil
                     /\ \A i \in DOMAIN trace : i > x => trace[i].kind # "call"

\* C11 witness: the manifest write failed after createProject registered a
\* new project and ws.Create bound the workspace; Execute returned the
\* write's error and both effects are still in place.
C11_Witness ==
    /\ top = "Execute"
    /\ \E i \in CallsOf({"WriteManifest"}) :
        /\ trace[i].err # Nil
        /\ ReturnedAfter(i, "Execute", trace[i].err)
    /\ Project \notin StartProjects
    /\ Project \in projects
    /\ StartWsProject = ""
    /\ wsProject = Project

\* C11 second case: Execute was entered with an empty project name and has
\* returned.
C11_EmptyProjectWitness ==
    /\ top = "Execute"
    /\ Project = ""
    /\ ReturnsOf("Execute") # {}

\* C12: when Confirm returns an error, whatever answer comes with it,
\* deployEnv returns nil and calls neither the progress reporter, the
\* deployer nor CreateEnvironment.
C12_PromptErrorMeansNo ==
    \A i \in CallsOf({"Confirm"}) :
        trace[i].err # Nil
            => /\ \A fn \in DeployEnvCallers : ReturnedAfter(i, fn, Nil)
               /\ CallsOf({"prog.Start", "prog.Stop"} \cup DeployOps) = {}

\* the calls that read or prompt
ReadOps == {"Summary", "ListProjects", "Get", "SelectOne"}

\* C13: while Prepare, Ask or Validate is the method invoked, every
\* collaborator call made is a read (ws.Summary, ListProjects) or a prompt
\* (Get, SelectOne), and the registries, the stacks, the workspace binding and
\* the manifests are as they were: no CreateProject, CreateEnvironment,
\* ws.Create, WriteManifest, DeployEnvironment or WaitForEnvironmentCreation.
C13_SideEffectsOnlyInExecute ==
    top \in {"Prepare", "Ask", "Validate"}
        => /\ \A i \in DOMAIN trace : trace[i].kind = "call" => trace[i].op \in ReadOps
           /\ world = start

\* C13 witness: the direct driver has run Prepare (a list is staged), Ask (a
\* project and an application name are set) and Validate, which has
\* returned, and the world is unchanged.
C13_Witness ==
    /\ driver = "direct"
    /\ ncalls = 3
    /\ top = "Validate"
    /\ ReturnsOf("Validate") # {}
    /\ existingProjects # <<>>
    /\ Project # ""
    /\ AppType # ""
    /\ projects = {"acme", "beta"}
    /\ manifests = {}

\* the field a prompt of Ask is for (1: project, 2: application name,
\* 3: application type), by its question
FieldOf(e) ==
    CASE e.arg[1] \in {"Which project should we use?", "What is your project's name?"} -> 1
      [] e.arg[1] = "What is your application's name?" -> 2
      [] e.arg[1] = "Which template would you like to use?" -> 3

IsPrompt(e) == IsCall(e, {"Get", "SelectOne"})

\* the prompts of the trace, in order
Prompts == SelectSeq(trace, IsPrompt)

\* the step prompts for field f
PromptsFor(f) ==
    \E j \in DOMAIN trace' : Added(j) /\ IsPrompt(trace'[j]) /\ FieldOf(trace'[j]) = f

\* the prompts of Ask come in the order project, name, type, at most one for
\* each; a failed prompt is the last and Ask returns its error, wrapped; when
\* Ask has returned nil the three fields are set
AskInOrder ==
    /\ \A k \in DOMAIN Prompts :
        /\ k > 1 => FieldOf(Prompts[k - 1]) < FieldOf(Prompts[k])
        /\ Prompts[k].err # Nil
              => /\ k = Len(Prompts)
                 /\ \E j \in ReturnsOf("Ask") :
                        /\ Carries(trace[j].err, Prompts[k].err)
                        /\ trace[j].err # Prompts[k].err
        /\ Prompts[k].err = Nil => Prompts[k].val # <<"">>
    /\ \A j \in ReturnsOf("Ask") :
          (trace[j].err = Nil /\ top = "Ask")
              => Project # "" /\ AppName # "" /\ AppType # ""

\* a step of Ask prompts for a field exactly when the field is empty, and no
\* step changes a field that is set
AskOnlyEmptyFields ==
    /\ pc = "Ask" => (PromptsFor(1) <=> Project = "")
    /\ pc = "Ask_AppName" => (PromptsFor(2) <=> AppName = "")
    /\ pc = "Ask_AppType" => (PromptsFor(3) <=> AppType = "")
    /\ pc \in {"Ask", "Ask_AppName", "Ask_AppType"}
          => /\ Project # "" => Project' = Project /\ ~PromptsFor(1)
             /\ AppName # "" => AppName' = AppName /\ ~PromptsFor(2)
             /\ AppType # "" => AppType' = AppType /\ ~PromptsFor(3)

\* C14: Ask prompts only for the fields that are empty, in the order project,
\* application name, application type; a field that is set is neither
\* prompted for nor changed; the first failed prompt ends Ask with an error
\* and no later prompt; and when Ask returns nil all three fields are set.
C14_AskFillsEmptyFieldsInOrder ==
    []AskInOrder /\ [][AskOnlyEmptyFields]_vars

\* C14 witness: Ask has returned nil after prompting for all three fields.
C14_Witness ==
    /\ top = "Ask"
    /\ Len(Prompts) = 3
    /\ \E j \in ReturnsOf("Ask") : trace[j].err = Nil

\* C14 second case: the application-name prompt failed, with the project
\* given and the type still empty, and Ask has returned.
C14_FailureWitness ==
    /\ top = "Ask"
    /\ AppType = ""
    /\ Len(Prompts) = 1
    /\ FieldOf(Prompts[1]) = 2
    /\ Prompts[1].err # Nil
    /\ ReturnsOf("Ask") # {}

\* the prompts of the trace that ask for the project
ProjectPrompts(op) == {i \in CallsOf({op}) : FieldOf(trace[i]) = 1}

\* C15: in a run of the command, once Ask has dealt with the project: it was
\* asked as a selection over the names Prepare staged exactly when it was not
\* supplied, ws.Summary reported no bound project and ListProjects returned at
\* least one name; as free text exactly when it was not supplied, ws.Summary
\* reported no bound project and ListProjects returned no name or failed; and
\* not at all when it was supplied (Prepare made no call) or adopted from the
\* workspace; an answer becomes the project.
C15_ProjectResolutionPriority ==
    (driver = "cmd" /\ EntriesOf("Ask") # {})
        => LET unbound == \E i \in CallsOf({"Summary"}) : trace[i].err # Nil
               adopted == \E i \in CallsOf({"Summary"}) : trace[i].err = Nil
               supplied == CallsOf({"Summary"}) = {}
               listed == \E i \in CallsOf({"ListProjects"}) : Len(trace[i].val) > 0
           IN  /\ ProjectPrompts("SelectOne") # {} <=> (unbound /\ listed)
               /\ ProjectPrompts("Get") # {} <=> (unbound /\ ~listed)
               /\ (supplied \/ adopted)
                     => /\ ProjectPrompts("SelectOne") \cup ProjectPrompts("Get") = {}
                        /\ CallsOf({"ListProjects"}) = {}
               /\ supplied => Project # ""
               /\ \A i \in CallsOf({"Summary"}) :
                     trace[i].err = Nil => Project = trace[i].val[1]
               /\ \A i \in ProjectPrompts("SelectOne") :
                     /\ \E l \in CallsOf({"ListProjects"}) :
                            l < i /\ Tail(trace[i].arg) = trace[l].val
                     /\ trace[i].err = Nil => Project = trace[i].val[1]
               /\ \A i \in ProjectPrompts("Get") :
                     trace[i].err = Nil => Project = trace[i].val[1]

\* C15 witness: the project was not supplied, ws.Summary failed, ListProjects
\* returned two names, and the project chosen at the selection is set.
C15_Witness ==
    /\ driver = "cmd"
    /\ \E i \in CallsOf({"Summary"}) : trace[i].err # Nil
    /\ \E i \in CallsOf({"ListProjects"}) : Len(trace[i].val) = 2
    /\ \E i \in ProjectPrompts("SelectOne") :
          trace[i].err = Nil /\ Project = trace[i].val[1]

\* C15 second case: ListProjects failed although projects are registered, and
\* the project was asked as free text.
C15_ListingFailedWitness ==
    /\ driver = "cmd"
    /\ StartProjects # {}
    /\ \E i \in CallsOf({"ListProjects"}) : trace[i].err # Nil
    /\ ProjectPrompts("Get") # {}

\* the error Validate is to report: none for an empty or a well-formed name,
\* the project's violation before the application name's
ExpectedValidation ==
    IF Project = BadName
    THEN << <<"project name invalid", "errValueBadFormat">> >>
    ELSE IF AppName = BadName
    THEN << <<"application name invalid", "errValueBadFormat">> >>
    ELSE Nil

\* C16: Validate returns nil when each name is empty or well formed, and
\* otherwise an error that names the offending field and its violation, the
\* project's before the application name's; it changes no request field, no
\* collaborator, and makes no call.
C16_ValidateIgnoresEmpty ==
    [][pc = "Validate"
          => /\ trace' = trace \o <<Enter("Validate"), Ret("Validate", ExpectedValidation)>>
             /\ UNCHANGED <<opts, world>>]_vars

\* C16 witness: Validate has returned nil with the project and the
\* application name both empty.
C16_Witness ==
    /\ Project = ""
    /\ AppName = ""
    /\ trace = <<Enter("Validate"), Ret("Validate", Nil)>>

\* C16 second case: both names are malformed and Validate has reported the
\* project.
C16_BothInvalidWitness ==
    /\ Project = BadName
    /\ AppName = BadName
    /\ \E j \in ReturnsOf("Validate") : trace[j].err[1][1] = "project name invalid"

IsProg(e) == IsCall(e, {"prog.Start", "prog.Stop"})

\* the progress reporter's calls of the trace, in order
ProgCalls == SelectSeq(trace, IsProg)

\* the number of indicators running: the starts not yet stopped
Running == Cardinality(CallsOf({"prog.Start"})) - Cardinality(CallsOf({"prog.Stop"}))

\* C17: the progress reporter's calls alternate start, stop, start, stop, so
\* at most one indicator runs at any time; none runs once deployEnv has
\* returned, on whichever path; and no indicator is started unless Confirm
\* returned true (so none on the skip, existing-environment and declined
\* paths).
C17_ProgressBracketing ==
    /\ \A k \in DOMAIN ProgCalls :
          ProgCalls[k].op = IF k % 2 = 1 THEN "prog.Start" ELSE "prog.Stop"
    /\ Len(ProgCalls) <= 4
    /\ ReturnsOf("deployEnv") # {} => Len(ProgCalls) % 2 = 0
    /\ pc \in {"DeployEnvironment"} => Len(ProgCalls) = 0
    /\ pc \in {"WaitForEnvironmentCreation", "CreateEnvironment"} => Len(ProgCalls) = 3
    /\ \A i \in CallsOf({"prog.Start"}) :
          \E c \in CallsOf({"Confirm"}) : c < i /\ trace[c].val = <<"true">>
    /\ \A i \in CallsOf({"prog.Start"}) :
          /\ ~ShouldSkipDeploy
          /\ \A l \in CallsOf({"ListEnvironments"}) : trace[l].val = <<>>

\* C17 witness: CreateEnvironment failed after both indicators were started,
\* and deployEnv has returned with both stopped.
C17_Witness ==
    /\ \E i \in CallsOf({"CreateEnvironment"}) : trace[i].err # Nil
    /\ ReturnsOf("deployEnv") # {}
    /\ Len(ProgCalls) = 4
    /\ Running = 0

\* C18: within one invocation DeployEnvironment and CreateEnvironment are
\* each called at most once; every deployer and registry call of deployEnv
\* carries the same environment, owned by Project, named "test", with the
\* public load balancer on; CreateEnvironment is called only after
\* WaitForEnvironmentCreation succeeded for that environment; and the only
\* environment the invocation adds to the registry is that one, by a
\* successful CreateEnvironment.
C18_OneDefaultEnvironment ==
    /\ Cardinality(CallsOf({"DeployEnvironment"})) <= 1
    /\ Cardinality(CallsOf({"CreateEnvironment"})) <= 1
    /\ \A i \in CallsOf(DeployOps) : trace[i].arg = <<Project, "test", "true">>
    /\ \A i \in CallsOf({"CreateEnvironment"}) :
          \E w \in CallsOf({"WaitForEnvironmentCreation"}) :
              /\ w < i
              /\ trace[w].err = Nil
              /\ trace[w].arg = trace[i].arg
    /\ \A e \in envs \ StartEnvs :
          /\ e = <<Project, "test", "true">>
          /\ \E i \in CallsOf({"CreateEnvironment"}) :
                trace[i].err = Nil /\ trace[i].arg = e

\* C18 witness: the environment has been registered by this invocation.
C18_Witness ==
    /\ <<Project, "test", "true">> \in envs \ StartEnvs
    /\ \E i \in CallsOf({"CreateEnvironment"}) : trace[i].err = Nil
    /\ \E i \in CallsOf({"DeployEnvironment"}) : trace[i].err = Nil

====
